---------------------------- MODULE Spec2Model ----------------------------
(***************************************************************************)
(* loss-landscape-anim: src/loss_landscape_anim/main.py                     *)
(*                                                                          *)
(* loss_landscape_anim, train_models and compare_optimizers as state        *)
(* machines over a small file system, a random generator state and the      *)
(* model object.  DimReduction, LossGrid and sample_frames live in modules  *)
(* of the package that main.py imports; they are modelled from the design   *)
(* document (sections 4.1, 4.2) and marked so where they are defined.       *)
(*                                                                          *)
(* Numbers: parameter vectors, directions and 2D path points are integers.  *)
(* Grid coordinates and the parameters written into the model during the    *)
(* grid evaluation are fixed-point integers counting 1/Units.               *)
(***************************************************************************)
EXTENDS Integers, Sequences, FiniteSets, TLC

VARIABLES
    args,          \* the keyword arguments of the running loss_landscape_anim call
    pc,            \* position in the running function
    err,           \* the exception that ended the call, "" while none
    rng,           \* state of the global random generator
    fs_dirs,       \* directories that exist (resolved component sequences)
    fs_files,      \* files that exist: resolved path -> pickled model object
    file_path,     \* main.py:73
    model,         \* the in-memory model object, <<>> while None
    sampled,       \* sampled_optim_path, main.py:98
    optim_path,    \* main.py:99
    loss_path,     \* main.py:99
    accu_path,     \* main.py:99
    reduced_dict,  \* main.py:117, <<>> while not computed
    loss_grid,     \* the LossGrid object, <<>> while not constructed
    plot,          \* the keyword arguments animate_contour was called with, <<>> if not called
    prev,          \* what the previous call's reduce received and returned, <<>> if none
    nruns,         \* calls of loss_landscape_anim started so far
    t_opts,        \* train_models: optimizers
    c_opts,        \* compare_optimizers: optimizers
    c_dirs,        \* compare_optimizers: custom_directions
    idx,           \* loop index i of train_models / compare_optimizers
    trained,       \* models written by the last train_models call, by list position
    paths,         \* compare_optimizers: paths
    loaded,        \* compare_optimizers: the model objects torch.load returned, in order
    result,        \* compare_optimizers: the returned list, <<>> while none
    b_in,          \* LossGrid coordinates check: path_2d, resolution, margin
    b_out          \* LossGrid coordinates check: the lattice built, <<>> before

vars == <<args, pc, err, rng, fs_dirs, fs_files, file_path, model, sampled,
          optim_path, loss_path, accu_path, reduced_dict, loss_grid, plot,
          prev, nruns, t_opts, c_opts, c_dirs, idx, trained, paths, loaded,
          result, b_in, b_out>>

mainVars == <<args, pc, err, rng, fs_dirs, fs_files, file_path, model, sampled,
              optim_path, loss_path, accu_path, reduced_dict, loss_grid, plot,
              prev, nruns>>

cmpVars == <<t_opts, c_opts, c_dirs, idx, trained, paths, loaded, result>>

gridVars == <<b_in, b_out>>

(***************************************************************************)
(* Bounds of the model                                                      *)
(***************************************************************************)
\* dimension D of a flat parameter vector
Dim == 2
\* longest recorded optimisation path
MaxLen == 3
\* the smaller n_frames handed to sample_frames (the larger is MaxLen)
MaxFrames == 2
\* largest seed value
MaxSeed == 1
\* number of states of the random generator
RngStates == 2
\* largest grid resolution R
MaxRes == 5
\* longest optimizer list
MaxOpts == 2
\* calls of loss_landscape_anim in one behaviour of the rerun specification
MaxRuns == 2

(***************************************************************************)
(* Optional values, vectors                                                 *)
(***************************************************************************)
None == <<>>

Some(x) == <<x>>

Get(o) == o[1]

Last(s) == s[Len(s)]

Vec(a, b) == [i \in 1..Dim |-> IF i = 1 THEN a ELSE IF i = 2 THEN b ELSE 0]

Zero == Vec(0, 0)

E(k) == [i \in 1..Dim |-> IF i = k THEN 1 ELSE 0]

RECURSIVE DotFrom(_, _, _)
DotFrom(u, v, i) == IF i > Len(u) THEN 0 ELSE u[i] * v[i] + DotFrom(u, v, i + 1)

Dot(u, v) == DotFrom(u, v, 1)

Sub(u, v) == [i \in 1..Len(u) |-> u[i] - v[i]]

RECURSIVE Fact(_)
Fact(n) == IF n <= 1 THEN 1 ELSE n * Fact(n - 1)

Min(S) == CHOOSE x \in S : \A y \in S : x <= y

Max(S) == CHOOSE x \in S : \A y \in S : x >= y

RECURSIVE SeqsUpTo(_, _)
SeqsUpTo(S, n) ==
    IF n = 0 THEN {<<>>}
    ELSE LET shorter == SeqsUpTo(S, n - 1)
         IN  shorter \cup {Append(s, x) : s \in {t \in shorter : Len(t) = n - 1}, x \in S}

(***************************************************************************)
(* The recorded optimisation path (model.optim_path): produced by the       *)
(* training loop, a list of {flat_w, loss, accuracy} records                *)
(***************************************************************************)
Weights == {Vec(0, 0), Vec(1, 0), Vec(0, 2)}

RecLoss(w) == 1 + Dot(w, w)

RecAcc(w) == 10 - w[1]

StepOf(w) == [flat_w |-> w, loss |-> RecLoss(w), accuracy |-> RecAcc(w)]

Steps == {StepOf(w) : w \in Weights}

Trajectories == SeqsUpTo(Steps, MaxLen)

\* fixed point: one unit of a coordinate or parameter is Units steps
MarginDen == 10

Units == MarginDen * Fact(MaxRes - 1)

Scaled(w) == [i \in 1..Len(w) |-> Units * w[i]]

\* the model object torch.save pickles: the recorded path and the current parameters
TrainedModel(traj, optimizer) ==
    [optim_path |-> traj,
     optimizer  |-> optimizer,
     params     |-> Scaled(IF traj = <<>> THEN Zero ELSE Last(traj).flat_w)]

(***************************************************************************)
(* Path strings and pathlib.  A path string is [abs, comps, slash]: whether *)
(* it starts with "/", its components, whether it ends with "/".  A         *)
(* component is a sequence of atoms, so that string concatenation can glue  *)
(* a file name onto the last component.                                     *)
(***************************************************************************)
Str(abs, comps, slash) == [abs |-> abs, comps |-> comps, slash |-> slash]

\* pathlib.Path(s): the trailing slash is dropped
PurePath(s) == [abs |-> s.abs, comps |-> s.comps]

\* Path.parent
Parent(p) ==
    [abs |-> p.abs,
     comps |-> IF p.comps = <<>> THEN <<>> ELSE SubSeq(p.comps, 1, Len(p.comps) - 1)]

\* Path.__truediv__ with a string on the right: an absolute right operand wins
Join(p, s) ==
    IF s.abs THEN PurePath(s) ELSE [abs |-> p.abs, comps |-> p.comps \o s.comps]

\* str + str
StrConcat(s, name) ==
    IF s.slash \/ s.comps = <<>>
    THEN Str(s.abs, Append(s.comps, name), FALSE)
    ELSE Str(s.abs,
             Append(SubSeq(s.comps, 1, Len(s.comps) - 1), Last(s.comps) \o name),
             FALSE)

Cwd == << <<"cwd">> >>

\* the absolute location a path denotes in the process's working directory
Resolve(p) == IF p.abs THEN p.comps ELSE Cwd \o p.comps

Prefixes(c) == {SubSeq(c, 1, n) : n \in 0..Len(c)}

\* Path.is_dir
IsDir(dirs, p) == Resolve(p) \in dirs

\* Path.mkdir(parents=True, exist_ok=True)
Mkdir(dirs, p) == dirs \cup Prefixes(Resolve(p))

\* Path.is_file
IsFile(files, p) == Resolve(p) \in DOMAIN files

\* open(path, "wb") succeeds when the parent directory exists
CanCreate(dirs, p) == p.comps # <<>> /\ Resolve(Parent(p)) \in dirs

WriteFile(files, p, content) ==
    [q \in DOMAIN files \cup {Resolve(p)} |->
        IF q = Resolve(p) THEN content ELSE files[q]]

BaseDirs == Prefixes(Cwd) \cup {<< <<"tmp">> >>}

NoFiles == [q \in {} |-> <<>>]

(***************************************************************************)
(* plot.sample_frames(steps, max_frames): not under src/, and the design    *)
(* document does not describe it.  Modelled as any order-preserving         *)
(* selection of min(len(steps), max_frames) of the steps.                   *)
(***************************************************************************)
RECURSIVE SubSeqs(_, _)
SubSeqs(s, k) ==
    IF k = 0 THEN {<<>>}
    ELSE IF Len(s) < k THEN {}
    ELSE {<<s[1]>> \o t : t \in SubSeqs(Tail(s), k - 1)} \cup SubSeqs(Tail(s), k)

sample_frames(steps, max_frames) ==
    SubSeqs(steps, IF Len(steps) <= max_frames THEN Len(steps) ELSE max_frames)

(***************************************************************************)
(* loss_landscape.DimReduction.reduce: not under src/; modelled from the    *)
(* design document, section 4.1.                                            *)
(***************************************************************************)
Methods == {"pca", "random", "custom"}

\* centre every row by the ReferencePoint, the last step
Centered(traj) == [t \in 1..Len(traj) |-> Sub(traj[t], Last(traj))]

Project(traj, dirs) ==
    [t \in 1..Len(traj) |->
        <<Dot(Centered(traj)[t], dirs[1]), Dot(Centered(traj)[t], dirs[2])>>]

RECURSIVE SumSq(_, _, _)
SumSq(rows, k, t) ==
    IF t > Len(rows) THEN 0 ELSE rows[t][k] * rows[t][k] + SumSq(rows, k, t + 1)

\* variance of the centred rows along axis k
AxisVar(traj, k) == SumSq(Centered(traj), k, 1)

\* The top-2 principal directions, searched among the coordinate axes (the
\* unit directions an integer model can hold): the axis of largest variance,
\* then the largest of the rest; ties go to the lower axis.
PcaAxis1(traj) ==
    Min({k \in 1..Dim : \A j \in 1..Dim : AxisVar(traj, k) >= AxisVar(traj, j)})

PcaAxis2(traj) ==
    Min({k \in 1..Dim \ {PcaAxis1(traj)} :
            \A j \in 1..Dim \ {PcaAxis1(traj)} : AxisVar(traj, k) >= AxisVar(traj, j)})

PcaDirs(traj) == <<E(PcaAxis1(traj)), E(PcaAxis2(traj))>>

RECURSIVE TotalVar(_, _)
TotalVar(traj, k) == IF k > Dim THEN 0 ELSE AxisVar(traj, k) + TotalVar(traj, k + 1)

\* explained variance of the two axes, as numerators over the total
PcVariances(traj) ==
    <<AxisVar(traj, PcaAxis1(traj)), AxisVar(traj, PcaAxis2(traj)), TotalVar(traj, 1)>>

\* the generator state a seed sets
SeedState(seed) == seed % RngStates

\* two orthonormal directions drawn from generator state r
RandomDirs(r) == IF r % 2 = 0 THEN <<E(1), E(2)>> ELSE <<E(2), E(1)>>

\* exactly two vectors of the trajectory's dimension
DirsShapeOk(custom_directions, D) ==
    /\ custom_directions # None
    /\ Len(Get(custom_directions)) = 2
    /\ \A k \in 1..2 : Len(Get(custom_directions)[k]) = D

Raise(e) == [ok |-> FALSE, err |-> e]

\* reduce of a DimReduction(reduction_method, custom_directions, seed), with
\* the global generator in state r
reduce(reduction_method, custom_directions, seed, r, traj) ==
    IF Len(traj) = 0 THEN Raise("EmptyTrajectoryError")
    ELSE IF reduction_method = "custom"
    THEN IF ~DirsShapeOk(custom_directions, Len(traj[1]))
         THEN Raise("DirectionShapeMismatch")
         ELSE [ok |-> TRUE, err |-> "",
               path_2d |-> Project(traj, Get(custom_directions)),
               reduced_dirs |-> Get(custom_directions),
               pcvariances |-> None]
    ELSE IF Len(traj) < 2 THEN Raise("InsufficientStepsError")
    ELSE IF reduction_method = "pca"
    THEN [ok |-> TRUE, err |-> "",
          path_2d |-> Project(traj, PcaDirs(traj)),
          reduced_dirs |-> PcaDirs(traj),
          pcvariances |-> Some(PcVariances(traj))]
    ELSE LET dirs == RandomDirs(IF seed # None THEN SeedState(Get(seed)) ELSE r)
         IN  [ok |-> TRUE, err |-> "",
              path_2d |-> Project(traj, dirs),
              reduced_dirs |-> dirs,
              pcvariances |-> None]

(***************************************************************************)
(* loss_landscape.LossGrid: not under src/; modelled from the design        *)
(* document, section 4.2.                                                   *)
(***************************************************************************)
\* resolution R used when the caller passes none
DefaultRes == 2

\* margin, in tenths, used when the caller passes none
DefaultMarginNum == 2

\* absolute margin of an axis on which the path has no extent
FallbackMargin == 1

Xs(path_2d, axis) == {path_2d[t][axis] : t \in 1..Len(path_2d)}

Extent(path_2d, axis) == Max(Xs(path_2d, axis)) - Min(Xs(path_2d, axis))

\* AxisMargin without the padding on an axis the path extends along
AxisMarginNone(path_2d, axis, marginNum) ==
    IF Extent(path_2d, axis) > 0 THEN 0 ELSE FallbackMargin * Units

\* margin of one axis in 1/Units: the fraction marginNum/MarginDen of the extent
AxisMargin(path_2d, axis, marginNum) ==
    IF Extent(path_2d, axis) > 0
    THEN marginNum * (Units \div MarginDen) * Extent(path_2d, axis)
    ELSE FallbackMargin * Units

AxisLo(path_2d, axis, marginNum) ==
    Units * Min(Xs(path_2d, axis)) - AxisMargin(path_2d, axis, marginNum)

AxisHi(path_2d, axis, marginNum) ==
    Units * Max(Xs(path_2d, axis)) + AxisMargin(path_2d, axis, marginNum)

\* R evenly spaced values from lo to hi; a single value is lo
Linspace(lo, hi, R) ==
    [i \in 1..R |-> IF R = 1 THEN lo ELSE lo + ((i - 1) * (hi - lo)) \div (R - 1)]

\* the R x R lattice, coords[i][j] = (x_i, y_j)
Coords(path_2d, R, marginNum) ==
    LET xs == Linspace(AxisLo(path_2d, 1, marginNum), AxisHi(path_2d, 1, marginNum), R)
        ys == Linspace(AxisLo(path_2d, 2, marginNum), AxisHi(path_2d, 2, marginNum), R)
    IN  [i \in 1..R |-> [j \in 1..R |-> <<xs[i], ys[j]>>]]

\* the k-th lattice point in evaluation order (row by row)
GridPoint(coords, k) ==
    LET R == Len(coords)
    IN  coords[((k - 1) \div R) + 1][((k - 1) % R) + 1]

\* ReferencePoint + x*dir1 + y*dir2, in 1/Units
ParamsAt(ref, dirs, c) ==
    [i \in 1..Len(ref) |-> Units * ref[i] + c[1] * dirs[1][i] + c[2] * dirs[2][i]]

\* the model's loss over the evaluation data at parameters p (a fixed bowl)
EvalLoss(p) == Dot(p, p) \div Units

\* the loss the training trajectory recorded for parameters ref
RecordedLoss(traj, ref) ==
    traj[Max({t \in 1..Len(traj) : traj[t].flat_w = ref})].loss

DirsDimOk(directions, m) == \A k \in 1..2 : Len(directions[k]) = Len(m.params)

\* the object while its constructor runs
NewLossGrid(a, R, marginNum) ==
    [received       |-> a,
     optim_point    |-> Last(a.optim_path),
     coords         |-> Coords(a.path_2d, R, marginNum),
     loss_values_2d |-> <<>>,
     built          |-> FALSE,
     restored       |-> FALSE,
     true_optim_point |-> <<0, 0>>,
     loss_min       |-> 0]

(***************************************************************************)
(* loss_landscape_anim, main.py:24-147                                      *)
(***************************************************************************)
\* main.py:49-50, if seed: torch.manual_seed(seed)
SeedGlobal(seed, r) ==
    IF seed # None /\ Get(seed) # 0 THEN SeedState(Get(seed)) ELSE r

\* main.py:71, the directory mkdir is called on
MkdirTarget(model_dirpath) == Join(Parent(PurePath(model_dirpath)), model_dirpath)

\* main.py:69-72
EnsureDir(dirs, model_dirpath) ==
    IF ~IsDir(dirs, PurePath(model_dirpath))
    THEN Mkdir(dirs, MkdirTarget(model_dirpath))
    ELSE dirs

\* main.py:73
FilePath(model_dirpath, model_filename) == StrConcat(model_dirpath, model_filename)

\* Unzip with the losses taken in reverse order
UnzipReversedLoss(s) ==
    [optim_path |-> [t \in 1..Len(s) |-> s[t].flat_w],
     loss_path  |-> [t \in 1..Len(s) |-> s[Len(s) + 1 - t].loss],
     accu_path  |-> [t \in 1..Len(s) |-> s[t].accuracy]]

\* main.py:99-104, zip(*[(flat_w, loss, accuracy) for path in sampled_optim_path])
Unzip(s) ==
    [optim_path |-> [t \in 1..Len(s) |-> s[t].flat_w],
     loss_path  |-> [t \in 1..Len(s) |-> s[t].loss],
     accu_path  |-> [t \in 1..Len(s) |-> s[t].accuracy]]

\* CallReduce without the last sampled step
CallReduceDropLast(a, r, path) ==
    reduce(a.reduction_method, a.custom_directions, a.seed, r,
           SubSeq(path, 1, Len(path) - 1))

\* CallReduce handing the seed on only when it is truthy
CallReduceTruthySeed(a, r, path) ==
    reduce(a.reduction_method, a.custom_directions,
           IF a.seed # None /\ Get(a.seed) # 0 THEN a.seed ELSE None, r, path)

\* main.py:112-117, DimReduction(...).reduce(optim_path)
CallReduce(a, r, path) ==
    reduce(a.reduction_method, a.custom_directions, a.seed, r, path)

\* LossGridArgs with the two directions exchanged
LossGridArgsSwapped(path, rd) ==
    [optim_path |-> path, path_2d |-> rd.path_2d,
     directions |-> <<rd.reduced_dirs[2], rd.reduced_dirs[1]>>]

\* LossGridArgs with the optimisation path back to front
LossGridArgsReversed(path, rd) ==
    [optim_path |-> [t \in 1..Len(path) |-> path[Len(path) + 1 - t]],
     path_2d |-> rd.path_2d, directions |-> rd.reduced_dirs]

\* main.py:122-128, what the LossGrid constructor is handed
LossGridArgs(path, rd) ==
    [optim_path |-> path, path_2d |-> rd.path_2d, directions |-> rd.reduced_dirs]

\* PlotArgs with the optimum's loss read off the evaluated grid
PlotArgsGridMin(rd, losses, accs, grid) ==
    [param_steps      |-> rd.path_2d,
     loss_steps       |-> losses,
     acc_steps        |-> accs,
     loss_grid        |-> grid.loss_values_2d,
     coords           |-> grid.coords,
     true_optim_point |-> grid.true_optim_point,
     true_optim_loss  |-> Min({grid.loss_values_2d[k] : k \in 1..Len(grid.loss_values_2d)}),
     pcvariances      |-> rd.pcvariances]

\* main.py:131-144, what animate_contour is handed
PlotArgs(rd, losses, accs, grid) ==
    [param_steps      |-> rd.path_2d,
     loss_steps       |-> losses,
     acc_steps        |-> accs,
     loss_grid        |-> grid.loss_values_2d,
     coords           |-> grid.coords,
     true_optim_point |-> grid.true_optim_point,
     true_optim_loss  |-> grid.loss_min,
     pcvariances      |-> rd.pcvariances]

Fail(e) ==
    /\ pc' = "raised"
    /\ err' = e

\* main.py:49-73
Setup ==
    /\ pc = "start"
    /\ rng' = SeedGlobal(args.seed, rng)
    /\ fs_dirs' = EnsureDir(fs_dirs, args.model_dirpath)
    /\ file_path' = Some(FilePath(args.model_dirpath, args.model_filename))
    /\ pc' = "train"
    /\ UNCHANGED <<args, err, fs_files, model, sampled, optim_path, loss_path,
                   accu_path, reduced_dict, loss_grid, plot, prev, nruns>>
    /\ UNCHANGED <<cmpVars, gridVars>>

\* main.py:79-90
Train ==
    /\ pc = "train"
    /\ IF args.load_model
       THEN /\ pc' = "check"
            /\ UNCHANGED <<err, rng, fs_files, model>>
       ELSE \E traj \in Trajectories :
              /\ rng' = (rng + 1) % RngStates
              /\ model' = Some(TrainedModel(traj, "adam"))
              /\ IF CanCreate(fs_dirs, PurePath(Get(file_path)))
                 THEN /\ fs_files' = WriteFile(fs_files, PurePath(Get(file_path)),
                                               TrainedModel(traj, "adam"))
                      /\ pc' = "check"
                      /\ UNCHANGED err
                 ELSE /\ Fail("FileNotFoundError")
                      /\ UNCHANGED fs_files
    /\ UNCHANGED <<args, fs_dirs, file_path, sampled, optim_path, loss_path,
                   accu_path, reduced_dict, loss_grid, plot, prev, nruns>>
    /\ UNCHANGED <<cmpVars, gridVars>>

\* main.py:92-96
Load ==
    /\ pc = "check"
    /\ IF ~IsFile(fs_files, PurePath(Get(file_path)))
       THEN /\ Fail("Model file not found!")
            /\ UNCHANGED model
       ELSE /\ model' = Some(fs_files[Resolve(PurePath(Get(file_path)))])
            /\ pc' = "sample"
            /\ UNCHANGED err
    /\ UNCHANGED <<args, rng, fs_dirs, fs_files, file_path, sampled, optim_path,
                   loss_path, accu_path, reduced_dict, loss_grid, plot, prev, nruns>>
    /\ UNCHANGED <<cmpVars, gridVars>>

\* main.py:98-106; unpacking zip() of no tuples into three names raises ValueError
Sample ==
    /\ pc = "sample"
    /\ \E s \in sample_frames(Get(model).optim_path, args.n_frames) :
         /\ sampled' = s
         /\ IF s = <<>>
            THEN /\ Fail("ValueError")
                 /\ UNCHANGED <<optim_path, loss_path, accu_path>>
            ELSE /\ optim_path' = Unzip(s).optim_path
                 /\ loss_path' = Unzip(s).loss_path
                 /\ accu_path' = Unzip(s).accu_path
                 /\ pc' = "reduce"
                 /\ UNCHANGED err
    /\ UNCHANGED <<args, rng, fs_dirs, fs_files, file_path, model, reduced_dict,
                   loss_grid, plot, prev, nruns>>
    /\ UNCHANGED <<cmpVars, gridVars>>

\* main.py:112-120
Reduce ==
    /\ pc = "reduce"
    /\ LET rd == CallReduce(args, rng, optim_path)
       IN  IF rd.ok
           THEN /\ reduced_dict' = Some(rd)
                /\ pc' = "grid"
                /\ UNCHANGED err
           ELSE /\ Fail(rd.err)
                /\ UNCHANGED reduced_dict
    /\ UNCHANGED <<args, rng, fs_dirs, fs_files, file_path, model, sampled,
                   optim_path, loss_path, accu_path, loss_grid, plot, prev, nruns>>
    /\ UNCHANGED <<cmpVars, gridVars>>

\* main.py:122-128, the constructor starts: bounds and lattice
GridStart ==
    /\ pc = "grid"
    /\ LET a == LossGridArgs(optim_path, Get(reduced_dict))
       IN  IF ~DirsDimOk(a.directions, Get(model))
           THEN /\ Fail("DirectionDimensionMismatch")
                /\ UNCHANGED loss_grid
           ELSE /\ loss_grid' = Some(NewLossGrid(a, DefaultRes, DefaultMarginNum))
                /\ pc' = "eval"
                /\ UNCHANGED err
    /\ UNCHANGED <<args, rng, fs_dirs, fs_files, file_path, model, sampled,
                   optim_path, loss_path, accu_path, reduced_dict, plot, prev, nruns>>
    /\ UNCHANGED <<cmpVars, gridVars>>

\* one iteration of the constructor's loop: overwrite the parameters, evaluate
GridEval ==
    /\ pc = "eval"
    /\ LET g == Get(loss_grid)
           k == Len(g.loss_values_2d) + 1
           p == ParamsAt(g.optim_point, g.received.directions, GridPoint(g.coords, k))
       IN  /\ k <= Len(g.coords) * Len(g.coords)
           /\ model' = Some([Get(model) EXCEPT !.params = p])
           /\ loss_grid' = Some([g EXCEPT !.loss_values_2d = Append(@, EvalLoss(p))])
    /\ UNCHANGED <<args, pc, err, rng, fs_dirs, fs_files, file_path, sampled,
                   optim_path, loss_path, accu_path, reduced_dict, plot, prev, nruns>>
    /\ UNCHANGED <<cmpVars, gridVars>>

\* the constructor returns; the parameters are restored to the ReferencePoint
\* or left at the last grid point (section 4.2 allows either)
GridReturn ==
    /\ pc = "eval"
    /\ LET g == Get(loss_grid)
       IN  /\ Len(g.loss_values_2d) = Len(g.coords) * Len(g.coords)
           /\ \E restore \in BOOLEAN :
                /\ model' = IF restore
                            THEN Some([Get(model) EXCEPT !.params = Scaled(g.optim_point)])
                            ELSE model
                /\ loss_grid' = Some([g EXCEPT
                       !.built = TRUE,
                       !.restored = restore,
                       !.true_optim_point = Last(g.received.path_2d),
                       !.loss_min = RecordedLoss(Get(model).optim_path, g.optim_point)])
    /\ pc' = "plot"
    /\ UNCHANGED <<args, err, rng, fs_dirs, fs_files, file_path, sampled,
                   optim_path, loss_path, accu_path, reduced_dict, plot, prev, nruns>>
    /\ UNCHANGED <<cmpVars, gridVars>>

\* main.py:130-147
Plot ==
    /\ pc = "plot"
    /\ plot' = IF args.make_plot
               THEN Some(PlotArgs(Get(reduced_dict), loss_path, accu_path, Get(loss_grid)))
               ELSE None
    /\ pc' = "done"
    /\ UNCHANGED <<args, err, rng, fs_dirs, fs_files, file_path, model, sampled,
                   optim_path, loss_path, accu_path, reduced_dict, loss_grid, prev, nruns>>
    /\ UNCHANGED <<cmpVars, gridVars>>

\* a further call of loss_landscape_anim (main.py:24-43) in a fresh process:
\* new arguments, any generator state, the file system as the last call left it
Restart(ArgSet) ==
    /\ pc \in {"done", "raised"}
    /\ nruns < MaxRuns
    /\ nruns' = nruns + 1
    /\ prev' = IF reduced_dict # None
               THEN Some([optim_path   |-> optim_path,
                          args         |-> args,
                          rng          |-> rng,
                          reduced_dirs |-> Get(reduced_dict).reduced_dirs,
                          path_2d      |-> Get(reduced_dict).path_2d])
               ELSE prev
    /\ args' \in ArgSet
    /\ rng' \in 0..(RngStates - 1)
    /\ pc' = "start"
    /\ err' = ""
    /\ file_path' = None
    /\ model' = None
    /\ sampled' = <<>>
    /\ optim_path' = <<>>
    /\ loss_path' = <<>>
    /\ accu_path' = <<>>
    /\ reduced_dict' = None
    /\ loss_grid' = None
    /\ plot' = None
    /\ UNCHANGED <<fs_dirs, fs_files>>
    /\ UNCHANGED <<cmpVars, gridVars>>

(***************************************************************************)
(* Arguments and initial states                                             *)
(***************************************************************************)
Seeds == {None} \cup {Some(k) : k \in 0..MaxSeed}

ValidDirs == Some(<<Vec(1, 1), Vec(1, 0)>>)

\* the second vector has the wrong dimension
BadDirs == Some(<<E(1), <<1>> >>)

DirChoices(method) == IF method = "custom" THEN {ValidDirs, BadDirs} ELSE {None}

ModelFilename == <<"model.pt">>

\* "checkpoints/", the default of model_dirpath
DefaultDirpath == Str(FALSE, << <<"checkpoints">> >>, TRUE)

\* "checkpoints", "runs/exp/", "/tmp/ckpt/", "/tmp/ckpt"
Dirpaths ==
    {DefaultDirpath,
     Str(FALSE, << <<"checkpoints">> >>, FALSE),
     Str(FALSE, << <<"runs">>, <<"exp">> >>, TRUE),
     Str(TRUE, << <<"tmp">>, <<"ckpt">> >>, TRUE),
     Str(TRUE, << <<"tmp">>, <<"ckpt">> >>, FALSE)}

ArgsOf(methods, dirpaths, seeds, plots) ==
    {a \in [reduction_method : methods,
            custom_directions : {None, ValidDirs, BadDirs},
            model_dirpath : dirpaths,
            model_filename : {ModelFilename},
            load_model : BOOLEAN,
            make_plot : plots,
            seed : seeds,
            n_frames : {MaxFrames, MaxLen}] :
        a.custom_directions \in DirChoices(a.reduction_method)}

\* a recorded path of every length, for the model files that exist beforehand
RECURSIVE Ramp(_)
Ramp(n) == IF n = 0 THEN <<>> ELSE Append(Ramp(n - 1), StepOf(Vec(n % 2, 0)))

StoredModels == {TrainedModel(Ramp(n), "adam") : n \in 0..MaxLen}

\* model_filename inside the directory model_dirpath
InDir(model_dirpath, model_filename) ==
    [abs |-> model_dirpath.abs, comps |-> Append(model_dirpath.comps, model_filename)]

\* the file system before the call: the directory may exist, and if it does
\* a model file of an earlier call may be in it
InitFs(model_dirpath, model_filename) ==
    \/ /\ fs_dirs = BaseDirs
       /\ fs_files = NoFiles
    \/ /\ fs_dirs = Mkdir(BaseDirs, PurePath(model_dirpath))
       /\ \/ fs_files = NoFiles
          \/ \E m \in StoredModels :
                fs_files = WriteFile(NoFiles, InDir(model_dirpath, model_filename), m)

InitLocals ==
    /\ err = ""
    /\ file_path = None
    /\ model = None
    /\ sampled = <<>>
    /\ optim_path = <<>>
    /\ loss_path = <<>>
    /\ accu_path = <<>>
    /\ reduced_dict = None
    /\ loss_grid = None
    /\ plot = None
    /\ prev = None

IdleCmp ==
    /\ t_opts = <<>>
    /\ c_opts = <<>>
    /\ c_dirs = None
    /\ idx = 0
    /\ trained = <<>>
    /\ paths = <<>>
    /\ loaded = <<>>
    /\ result = None

IdleGrid ==
    /\ b_in = None
    /\ b_out = None

\* one call with the default directory and every reduction method
MainArgs == ArgsOf(Methods, {DefaultDirpath}, Seeds, BOOLEAN)

Init ==
    /\ args \in MainArgs
    /\ rng = 0
    /\ InitFs(args.model_dirpath, args.model_filename)
    /\ pc = "start"
    /\ nruns = 1
    /\ InitLocals
    /\ IdleCmp
    /\ IdleGrid

Next ==
    \/ Setup
    \/ Train
    \/ Load
    \/ Sample
    \/ Reduce
    \/ GridStart
    \/ GridEval
    \/ GridReturn
    \/ Plot

Spec == Init /\ [][Next]_vars

(***************************************************************************)
(* Properties of one call of loss_landscape_anim (specification Spec)       *)
(***************************************************************************)
ReduceErrors == {"EmptyTrajectoryError", "InsufficientStepsError", "DirectionShapeMismatch"}

\* the projection of sampled step t onto dirs, centred at the last sampled step
PointOf(s, t, dirs) ==
    <<Dot(Sub(s[t].flat_w, Last(s).flat_w), dirs[1]),
      Dot(Sub(s[t].flat_w, Last(s).flat_w), dirs[2])>>

\* C1: the LossGrid exists only once reduce has returned successfully, and it
\* was handed exactly the path_2d and reduced_dirs of that reduce call on the
\* sampled trajectory; when reduce raised, no grid was built and nothing was
\* plotted; a plot is made only from a finished grid.
C1_DependencyOrder ==
    /\ loss_grid # None =>
          /\ reduced_dict # None
          /\ Get(reduced_dict).ok
          /\ Get(loss_grid).received.optim_path = [t \in 1..Len(sampled) |-> sampled[t].flat_w]
          /\ Get(loss_grid).received.path_2d = Get(reduced_dict).path_2d
          /\ Get(loss_grid).received.directions = Get(reduced_dict).reduced_dirs
    /\ (pc = "raised" /\ err \in ReduceErrors) =>
          /\ reduced_dict = None
          /\ loss_grid = None
          /\ plot = None
    /\ plot # None => (loss_grid # None /\ Get(loss_grid).built)

C1_Witness ==
    /\ pc = "done"
    /\ plot # None
    /\ Get(loss_grid).built
    /\ Get(reduced_dict).reduced_dirs[1] # Get(reduced_dict).reduced_dirs[2]

\* C2: path_2d has one point per sampled step, in step order, and the three
\* sequences handed to the renderer all have the length T of the sampled
\* trajectory, index t of each belonging to sampled step t.
C2_Aligned ==
    /\ reduced_dict # None =>
          /\ Len(Get(reduced_dict).path_2d) = Len(sampled)
          /\ \A t \in 1..Len(sampled) :
                Get(reduced_dict).path_2d[t] = PointOf(sampled, t, Get(reduced_dict).reduced_dirs)
    /\ plot # None =>
          /\ Len(Get(plot).param_steps) = Len(sampled)
          /\ Len(Get(plot).loss_steps) = Len(sampled)
          /\ Len(Get(plot).acc_steps) = Len(sampled)
          /\ \A t \in 1..Len(sampled) :
                /\ Get(plot).param_steps[t] = PointOf(sampled, t, Get(reduced_dict).reduced_dirs)
                /\ Get(plot).loss_steps[t] = sampled[t].loss
                /\ Get(plot).acc_steps[t] = sampled[t].accuracy

\* a plot of a path that sampling shortened, whose steps all differ
C2_Witness ==
    /\ plot # None
    /\ Len(sampled) = MaxFrames
    /\ Len(Get(model).optim_path) > Len(sampled)
    /\ \A t, u \in 1..Len(sampled) : t # u => sampled[t] # sampled[u]

\* C3: a call whose sampled optimisation path is empty ends with
\* EmptyTrajectoryError (the statement of the claim; the code raises
\* ValueError at main.py:99 before reduce is called).
C3_EmptyPathRaisesEmptyTrajectory ==
    ( /\ pc \in {"raised", "done"}
      /\ model # None
      /\ Get(model).optim_path = <<>>
      /\ err \notin {"FileNotFoundError", "Model file not found!"} )
    => err = "EmptyTrajectoryError"

\* C4: with method pca, reduce on T >= 2 steps returns T points, each the
\* projection of its step minus the last step handed to reduce, so the last
\* point is (0,0).
C4_PcaCentered ==
    (reduced_dict # None /\ args.reduction_method = "pca") =>
        /\ Len(optim_path) >= 2
        /\ Len(Get(reduced_dict).path_2d) = Len(optim_path)
        /\ Len(optim_path) = Len(sampled)
        /\ Last(Get(reduced_dict).path_2d) = <<0, 0>>
        /\ \A t \in 1..Len(optim_path) :
              Get(reduced_dict).path_2d[t] =
                 <<Dot(Sub(optim_path[t], Last(optim_path)), Get(reduced_dict).reduced_dirs[1]),
                   Dot(Sub(optim_path[t], Last(optim_path)), Get(reduced_dict).reduced_dirs[2])>>

\* a pca reduction whose first point is off the origin
C4_Witness ==
    /\ reduced_dict # None
    /\ args.reduction_method = "pca"
    /\ Get(reduced_dict).path_2d[1] # <<0, 0>>
    /\ Len(optim_path) = MaxFrames

\* the parameters of the last lattice point evaluated
LastGridParams(path, dirs, g) ==
    ParamsAt(Last(path), dirs, GridPoint(g.coords, Len(g.coords) * Len(g.coords)))

RerunArgs ==
    {a \in ArgsOf(Methods, {DefaultDirpath}, Seeds, {FALSE}) :
        /\ a.load_model
        /\ a.n_frames = MaxLen
        /\ a.custom_directions # BadDirs}

InitRerun ==
    /\ args \in RerunArgs
    /\ rng \in 0..(RngStates - 1)
    /\ InitFs(args.model_dirpath, args.model_filename)
    /\ pc = "start"
    /\ nruns = 1
    /\ InitLocals
    /\ IdleCmp
    /\ IdleGrid

NextRerun ==
    \/ Next
    \/ Restart(RerunArgs)

SpecRerun == InitRerun /\ [][NextRerun]_vars

PathArgs == ArgsOf({"pca"}, Dirpaths, {None}, {TRUE})

InitPaths ==
    /\ args \in PathArgs
    /\ rng = 0
    /\ InitFs(args.model_dirpath, args.model_filename)
    /\ pc = "start"
    /\ nruns = 1
    /\ InitLocals
    /\ IdleCmp
    /\ IdleGrid

SpecPaths == InitPaths /\ [][Next]_vars

\* C9: with load_model false, when the model is about to be saved the
\* directory model_dirpath exists and file_path is model_filename inside it;
\* that is also the file checked and reloaded (the statement of the claim;
\* main.py:71 and main.py:73 break it).
C9_SavedInsideDir ==
    /\ (pc = "train" /\ ~args.load_model) =>
          /\ IsDir(fs_dirs, PurePath(args.model_dirpath))
          /\ Resolve(PurePath(Get(file_path))) =
                Resolve(InDir(args.model_dirpath, args.model_filename))
    /\ (pc = "sample" /\ ~args.load_model) =>
          /\ Resolve(InDir(args.model_dirpath, args.model_filename)) \in DOMAIN fs_files
          /\ Get(model) = fs_files[Resolve(InDir(args.model_dirpath, args.model_filename))]

(***************************************************************************)
(* LossGrid's lattice as a function of path_2d, resolution and margin       *)
(* (specification SpecGrid)                                                 *)
(***************************************************************************)
\* margins in tenths: 0.1, 0.2, 0.3, 1.5
Margins == {1, 2, 3, 15}

Points == {<<x, y>> : x \in (-2)..0, y \in (-1)..0}

Paths2D == SeqsUpTo(Points, MaxLen) \ {<<>>}

IdleMain ==
    /\ args \in ArgsOf({"pca"}, {DefaultDirpath}, {None}, {TRUE})
    /\ args.load_model
    /\ args.n_frames = MaxLen
    /\ rng = 0
    /\ fs_dirs = BaseDirs
    /\ fs_files = NoFiles
    /\ pc = "idle"
    /\ nruns = 0
    /\ InitLocals

InitGrid ==
    /\ \E p \in Paths2D, R \in 1..MaxRes, m \in Margins :
          b_in = Some([path_2d |-> p, res |-> R, margin |-> m])
    /\ b_out = None
    /\ IdleMain
    /\ IdleCmp

\* LossGrid's bounds and lattice for the drawn path, resolution and margin
BuildCoords ==
    /\ b_in # None
    /\ b_out = None
    /\ b_out' = Some(Coords(Get(b_in).path_2d, Get(b_in).res, Get(b_in).margin))
    /\ UNCHANGED b_in
    /\ UNCHANGED <<mainVars, cmpVars>>

NextGrid == BuildCoords

SpecGrid == InitGrid /\ [][NextGrid]_vars

\* the lattice's x (axis 1) or y (axis 2) values
LatticeVals(coords, axis) ==
    {coords[i][j][axis] : i \in 1..Len(coords), j \in 1..Len(coords)}

\* the box whose sides are margin * extent beyond the path, times MarginDen
BoxIsPathPlusMargin(coords, p, m) ==
    \A axis \in 1..2 :
        /\ MarginDen * Min(LatticeVals(coords, axis)) =
              Units * (MarginDen * Min(Xs(p, axis)) - m * Extent(p, axis))
        /\ MarginDen * Max(LatticeVals(coords, axis)) =
              Units * (MarginDen * Max(Xs(p, axis)) + m * Extent(p, axis))

StrictlyInside(coords, p) ==
    \A t \in 1..Len(p), axis \in 1..2 :
        /\ Min(LatticeVals(coords, axis)) < Units * p[t][axis]
        /\ Units * p[t][axis] < Max(LatticeVals(coords, axis))

\* R rows of R points, x growing along i and y along j in equal positive steps
RegularLattice(coords, R) ==
    /\ Len(coords) = R
    /\ \A i \in 1..R : Len(coords[i]) = R
    /\ Cardinality({coords[i][j] : i \in 1..R, j \in 1..R}) = R * R
    /\ \A i \in 1..R, j \in 1..R :
          /\ coords[i][j][1] = coords[i][1][1]
          /\ coords[i][j][2] = coords[1][j][2]
    /\ \A i \in 1..(R - 1) :
          /\ coords[i + 1][1][1] - coords[i][1][1] = coords[2][1][1] - coords[1][1][1]
          /\ coords[1][i + 1][2] - coords[1][i][2] = coords[1][2][2] - coords[1][1][2]
          /\ coords[i + 1][1][1] > coords[i][1][1]
          /\ coords[1][i + 1][2] > coords[1][i][2]

\* R=5, margin=0.2, x in [-2,0], y in [-1,0]
IsScenario(b) ==
    /\ b.res = 5
    /\ b.margin = 2
    /\ Xs(b.path_2d, 1) = {-2, 0}
    /\ Xs(b.path_2d, 2) = {-1, 0}

\* bounds x in [-2.4,0.4], y in [-1.2,0.2], times MarginDen
ScenarioBounds(coords) ==
    /\ MarginDen * Min(LatticeVals(coords, 1)) = -24 * Units
    /\ MarginDen * Max(LatticeVals(coords, 1)) = 4 * Units
    /\ MarginDen * Min(LatticeVals(coords, 2)) = -12 * Units
    /\ MarginDen * Max(LatticeVals(coords, 2)) = 2 * Units

\* C8 (as amended): for a path with positive extent on both axes, a
\* resolution R >= 2 and a positive margin, coords is a regular R x R lattice
\* of R*R points whose bounding box is the path's box widened by
\* margin*extent on every side, and it strictly contains every path point;
\* R=5, margin=0.2, x in [-2,0], y in [-1,0] gives x in [-2.4,0.4],
\* y in [-1.2,0.2] and 25 points.
C8_LatticeContainsPath ==
    ( /\ b_out # None
      /\ Get(b_in).res >= 2
      /\ Extent(Get(b_in).path_2d, 1) > 0
      /\ Extent(Get(b_in).path_2d, 2) > 0 )
    => /\ RegularLattice(Get(b_out), Get(b_in).res)
       /\ BoxIsPathPlusMargin(Get(b_out), Get(b_in).path_2d, Get(b_in).margin)
       /\ StrictlyInside(Get(b_out), Get(b_in).path_2d)
       /\ IsScenario(Get(b_in)) => ScenarioBounds(Get(b_out))

\* the scenario's lattice has been built
C8_Witness ==
    /\ b_out # None
    /\ IsScenario(Get(b_in))
    /\ ScenarioBounds(Get(b_out))

\* C8 as stated: the same for every resolution R and every path that is not
\* a single point.
C8_AnyResolution ==
    ( /\ b_out # None
      /\ Extent(Get(b_in).path_2d, 1) + Extent(Get(b_in).path_2d, 2) > 0 )
    => /\ Len(Get(b_out)) = Get(b_in).res
       /\ Cardinality({Get(b_out)[i][j] : i, j \in 1..Get(b_in).res}) =
             Get(b_in).res * Get(b_in).res
       /\ BoxIsPathPlusMargin(Get(b_out), Get(b_in).path_2d, Get(b_in).margin)
       /\ StrictlyInside(Get(b_out), Get(b_in).path_2d)

(***************************************************************************)
(* train_models (main.py:150-189) and compare_optimizers (main.py:192-222)  *)
(* (specification SpecCompare): compare_optimizers is called once, on a     *)
(* directory as it was found or after one call of train_models              *)
(***************************************************************************)
Optimizers == {"adam", "sgd"}

OptimizerLists == SeqsUpTo(Optimizers, MaxOpts) \ {<<>>}

\* max_frames at main.py:212
CompareMaxFrames == 300

\* "model_{optimizer}_{i}.pt"
IndexedName(optimizer, i) == <<"model_", optimizer, "_", ToString(i), ".pt">>

\* f"./{model_dirpath}/{name}": relative to the working directory
UnderDot(model_dirpath, name) ==
    [abs |-> FALSE, comps |-> Append(model_dirpath.comps, name)]

\* main.py:186
TrainFilePath(model_dirpath, optimizer, i) ==
    UnderDot(model_dirpath, IndexedName(optimizer, i))

\* the file name without the list position
CompareFilePathNoIndex(model_dirpath, optimizer, i) ==
    UnderDot(model_dirpath, <<"model_", optimizer, ".pt">>)

\* main.py:205
CompareFilePath(model_dirpath, optimizer, i) ==
    UnderDot(model_dirpath, IndexedName(optimizer, i))

\* main.py:213
FlatWs(s) == [t \in 1..Len(s) |-> s[t].flat_w]

\* outcomes of training one model: no step recorded, or one of two paths
TrainOutcomes ==
    {<<>>,
     <<StepOf(Vec(0, 2)), StepOf(Vec(1, 0))>>,
     <<StepOf(Vec(1, 0)), StepOf(Vec(0, 2)), StepOf(Vec(0, 0))>>}

\* a model file left by an earlier, unrelated training
StaleModel == TrainedModel(<<StepOf(Vec(1, 0)), StepOf(Vec(0, 2)), StepOf(Vec(0, 0))>>, "stale")

\* train_models is called, main.py:150-164
TrainModelsStart ==
    /\ pc = "idle"
    /\ nruns = 0
    /\ nruns' = nruns + 1
    /\ \E os \in OptimizerLists, seed \in Seeds :
          /\ t_opts' = os
          /\ rng' = SeedGlobal(seed, rng)
    /\ idx' = 0
    /\ trained' = <<>>
    /\ err' = ""
    /\ pc' = "training"
    /\ UNCHANGED <<args, fs_dirs, fs_files, file_path, model, sampled, optim_path,
                   loss_path, accu_path, reduced_dict, loss_grid, plot, prev>>
    /\ UNCHANGED <<c_opts, c_dirs, paths, loaded, result>>
    /\ UNCHANGED gridVars

\* one iteration of the loop at main.py:167-188: train, save
TrainModelsStep ==
    /\ pc = "training"
    /\ idx < Len(t_opts)
    /\ \E traj \in TrainOutcomes :
         LET m == TrainedModel(traj, t_opts[idx + 1])
             f == TrainFilePath(args.model_dirpath, t_opts[idx + 1], idx)
         IN  /\ rng' = (rng + 1) % RngStates
             /\ IF CanCreate(fs_dirs, f)
                THEN /\ fs_files' = WriteFile(fs_files, f, m)
                     /\ trained' = Append(trained, m)
                     /\ idx' = idx + 1
                     /\ UNCHANGED <<pc, err>>
                ELSE /\ Fail("FileNotFoundError")
                     /\ UNCHANGED <<fs_files, trained, idx>>
    /\ UNCHANGED <<args, fs_dirs, file_path, model, sampled, optim_path, loss_path,
                   accu_path, reduced_dict, loss_grid, plot, prev, nruns>>
    /\ UNCHANGED <<t_opts, c_opts, c_dirs, paths, loaded, result>>
    /\ UNCHANGED gridVars

\* main.py:189, the loop is over
TrainModelsDone ==
    /\ pc = "training"
    /\ idx = Len(t_opts)
    /\ pc' = "idle"
    /\ UNCHANGED <<args, err, rng, fs_dirs, fs_files, file_path, model, sampled,
                   optim_path, loss_path, accu_path, reduced_dict, loss_grid, plot,
                   prev, nruns>>
    /\ UNCHANGED cmpVars
    /\ UNCHANGED gridVars

\* compare_optimizers is called, main.py:192-202
CompareStart ==
    /\ pc = "idle"
    /\ nruns' = nruns + 1
    /\ \E os \in OptimizerLists, ds \in {ValidDirs, BadDirs} :
          /\ c_opts' = os
          /\ c_dirs' = ds
    /\ idx' = 0
    /\ paths' = <<>>
    /\ loaded' = <<>>
    /\ result' = None
    /\ err' = ""
    /\ pc' = "comparing"
    /\ UNCHANGED <<args, rng, fs_dirs, fs_files, file_path, model, sampled,
                   optim_path, loss_path, accu_path, reduced_dict, loss_grid, plot, prev>>
    /\ UNCHANGED <<t_opts, trained>>
    /\ UNCHANGED gridVars

\* one iteration of the loop at main.py:203-221: check, load, sample, reduce
CompareStep ==
    /\ pc = "comparing"
    /\ idx < Len(c_opts)
    /\ LET f == CompareFilePath(args.model_dirpath, c_opts[idx + 1], idx)
       IN  IF ~IsFile(fs_files, f)
           THEN /\ Fail("Model file not found!")
                /\ UNCHANGED <<idx, paths, loaded>>
           ELSE \E s \in sample_frames(fs_files[Resolve(f)].optim_path, CompareMaxFrames) :
                  LET rd == reduce("custom", c_dirs, None, rng, FlatWs(s))
                  IN  /\ loaded' = Append(loaded, fs_files[Resolve(f)])
                      /\ IF rd.ok
                         THEN /\ paths' = Append(paths, <<c_opts[idx + 1], rd.path_2d>>)
                              /\ idx' = idx + 1
                              /\ UNCHANGED <<pc, err>>
                         ELSE /\ Fail(rd.err)
                              /\ UNCHANGED <<idx, paths>>
    /\ UNCHANGED <<args, rng, fs_dirs, fs_files, file_path, model, sampled,
                   optim_path, loss_path, accu_path, reduced_dict, loss_grid, plot,
                   prev, nruns>>
    /\ UNCHANGED <<t_opts, c_opts, c_dirs, trained, result>>
    /\ UNCHANGED gridVars

\* main.py:222
CompareReturn ==
    /\ pc = "comparing"
    /\ idx = Len(c_opts)
    /\ result' = Some(paths)
    /\ pc' = "returned"
    /\ UNCHANGED <<args, err, rng, fs_dirs, fs_files, file_path, model, sampled,
                   optim_path, loss_path, accu_path, reduced_dict, loss_grid, plot,
                   prev, nruns>>
    /\ UNCHANGED <<t_opts, c_opts, c_dirs, idx, trained, paths, loaded>>
    /\ UNCHANGED gridVars

\* the directory may exist, and hold model files of an earlier training
InitCompare ==
    /\ args \in ArgsOf({"custom"}, {DefaultDirpath}, {None}, {TRUE})
    /\ args.custom_directions = ValidDirs
    /\ args.load_model
    /\ args.n_frames = MaxLen
    /\ rng = 0
    /\ \/ /\ fs_dirs = BaseDirs
          /\ fs_files = NoFiles
       \/ /\ fs_dirs = Mkdir(BaseDirs, PurePath(args.model_dirpath))
          /\ \E stale \in SUBSET {<<"adam", 0>>, <<"sgd", 1>>} :
                fs_files = [q \in {Resolve(TrainFilePath(args.model_dirpath, e[1], e[2])) :
                                      e \in stale} |-> StaleModel]
    /\ pc = "idle"
    /\ nruns = 0
    /\ InitLocals
    /\ IdleCmp
    /\ IdleGrid

NextCompare ==
    \/ TrainModelsStart
    \/ TrainModelsStep
    \/ TrainModelsDone
    \/ CompareStart
    \/ CompareStep
    \/ CompareReturn

SpecCompare == InitCompare /\ [][NextCompare]_vars

\* train_models has completed for the list compare_optimizers is running on
TrainedForCompare ==
    /\ pc \in {"comparing", "returned", "raised"}
    /\ c_opts # <<>>
    /\ t_opts = c_opts
    /\ Len(trained) = Len(t_opts)

\* C10: after train_models completed for a list, compare_optimizers on the
\* same list and directory never raises "Model file not found!"; what it
\* returns has one (optimizer, path_2d) pair per list entry, in list order,
\* each from the model trained for that entry, and the call fails to return
\* only when reduce rejects the directions or a model's path; a call that met
\* a missing model file raised and returned nothing.
C10_CompareFindsTrained ==
    /\ TrainedForCompare =>
          /\ err # "Model file not found!"
          /\ \A i \in 1..Len(loaded) : loaded[i] = trained[i]
          /\ pc = "raised" =>
                /\ err \in ReduceErrors
                /\ \/ Last(loaded).optim_path = <<>>
                   \/ ~DirsShapeOk(c_dirs, Dim)
    /\ pc = "comparing" => result = None
    /\ pc = "returned" =>
          /\ result # None
          /\ Len(Get(result)) = Len(c_opts)
          /\ Len(loaded) = Len(c_opts)
          /\ \A i \in 1..Len(c_opts) :
                /\ Get(result)[i][1] = c_opts[i]
                /\ Get(result)[i][2] =
                      Project(FlatWs(loaded[i].optim_path), Get(c_dirs))
                /\ loaded[i] =
                      fs_files[Resolve(UnderDot(args.model_dirpath,
                                                IndexedName(c_opts[i], i - 1)))]
    /\ (pc = "raised" /\ err = "Model file not found!") =>
          /\ result = None
          /\ idx < Len(c_opts)
          /\ Resolve(UnderDot(args.model_dirpath, IndexedName(c_opts[idx + 1], idx)))
                \notin DOMAIN fs_files

\* compare_optimizers returned for a list naming one optimizer twice, whose
\* two trained models differ, in a directory that held a stale model file
C10_Witness ==
    /\ TrainedForCompare
    /\ pc = "returned"
    /\ Len(c_opts) = 2
    /\ c_opts[1] = c_opts[2]
    /\ c_opts[1] = "adam"
    /\ trained[1] # trained[2]
    /\ Get(result)[1][2] # Get(result)[2][2]

=============================================================================
